---------------------------- MODULE Spec2Model ----------------------------
(***************************************************************************)
(* A model of locuspocus.Loci (src/locuspocus/loci.py): the SQLite tables  *)
(* created by Loci._initialize_tables, the insert path add_locus /         *)
(* _add_subloci, the lookups _get_locus_by_LID and _get_LID, iteration,    *)
(* the range queries within, upstream_loci, downstream_loci, flanking_loci *)
(* and encompassing_loci, and the accepts_loci decorator.                  *)
(*                                                                         *)
(* Statements run on a cursor of self.m80.db outside a transaction, so     *)
(* each statement takes effect when it runs and an exception ends the      *)
(* call without undoing the statements before it.                          *)
(***************************************************************************)
EXTENDS Integers, Sequences, FiniteSets, TLC

VARIABLES
    loci,            \* table loci: set of rows
    subloci,         \* table subloci: set of rows
    loci_attrs,      \* table loci_attrs: set of rows (LID,key,val)
    subloci_attrs,   \* table subloci_attrs: set of rows (LID,key,val)
    positions,       \* virtual table positions (rtree_i32): set of rows
    sqlite_sequence, \* AUTOINCREMENT bookkeeping: largest rowid handed out per table
    calls,           \* number of add_locus calls made so far
    alloc,           \* history: LIDs in allocation order, per scope
    inserted,        \* history: one entry per add_locus call (argument, outcome)
    ret              \* outcome of the latest lookup or query call

vars == <<loci, subloci, loci_attrs, subloci_attrs, positions, sqlite_sequence,
          calls, alloc, inserted, ret>>

-----------------------------------------------------------------------------
(* Bounds *)

\* number of add_locus calls explored
MaxCalls == 2

-----------------------------------------------------------------------------
(* Python values as they are bound to SQL parameters: a str, an int (kept  *)
(* by its decimal digits) or None                                          *)

PyStr(s) == [ty |-> "str", v |-> s]

PyInt(s) == [ty |-> "int", v |-> s]

Null == [ty |-> "null", v |-> ""]

\* a column declared TEXT stores a number as its text form
TextAffinity(x) == IF x.ty = "int" THEN [ty |-> "str", v |-> x.v] ELSE x

\* the largest signed 32 bit integer
MaxInt32 == 2147483647

\* a Python int n >= 0 used as a coordinate, kept as n = hi * 2^31 + lo with
\* 0 <= lo <= MaxInt32
Coord(hi, lo) == [hi |-> hi, lo |-> lo]

\* rtree_i32 keeps its coordinates as signed 32 bit integers: the low 32
\* bits of the value bound, read as two's complement
Int32(c) == IF c.hi % 2 = 0 THEN c.lo ELSE (c.lo - MaxInt32) - 1

-----------------------------------------------------------------------------
(* The Locus objects handed to add_locus                                   *)

Locus(chromosome, start, end, strand, name, attrs, subs) ==
    [chromosome |-> PyStr(chromosome), start |-> start, end |-> end,
     source |-> PyStr("locuspocus"), feature_type |-> PyStr("locus"),
     strand |-> PyStr(strand), frame |-> Null, name |-> name,
     attrs |-> attrs, subloci |-> subs]

\* Locus.as_record(): the core tuple in column order, and the attrs
as_record(l) ==
    [core |-> [chromosome |-> l.chromosome, start |-> l.start, end |-> l.end,
               source |-> l.source, feature_type |-> l.feature_type,
               strand |-> l.strand, frame |-> l.frame, name |-> l.name],
     attrs |-> l.attrs]

\* attrs.items() of a dict: the keys are distinct Python values
PlainAttrs == << <<PyStr("ID"), PyStr("g")>> >>

\* two distinct dict keys, 1 and '1', that are one key in a TEXT column
ClashAttrs == << <<PyInt("1"), PyStr("x")>>, <<PyStr("1"), PyStr("y")>> >>

SubLocus(name, attrs, subs) ==
    Locus("1", Coord(0, 110), Coord(0, 120), "+", PyStr(name), attrs, subs)

LeafOK == SubLocus("exon_a", PlainAttrs, <<>>)

LeafBad == SubLocus("exon_b", ClashAttrs, <<>>)

Transcript == SubLocus("mrna_a", PlainAttrs, <<LeafOK>>)

TranscriptBad == SubLocus("mrna_b", PlainAttrs, <<LeafBad>>)

SubLociInputs ==
    { <<>>, <<LeafOK, LeafBad>>, <<Transcript, LeafOK>> }

\* chromosome, start, end, strand, name of the loci inserted
CoreInputs ==
    { <<"1", Coord(0, 100), Coord(0, 150), "+", PyStr("gene_a")>>,
      <<"2", Coord(1, 5), Coord(1, 10), "-", PyStr("gene_a")>>,
      <<"1", Coord(0, MaxInt32), Coord(1, 0), "+", PyStr("gene_b")>> }

LocusInputs ==
    { Locus(c[1], c[2], c[3], c[4], c[5], PlainAttrs, s) :
        c \in CoreInputs, s \in SubLociInputs }
    \cup { Locus("1", Coord(0, 100), Coord(0, 150), "+", PyStr("gene_a"),
                 ClashAttrs, <<Transcript, LeafOK>>),
           Locus("1", Coord(0, 100), Coord(0, 150), "+", PyStr("gene_a"),
                 PlainAttrs, <<TranscriptBad, LeafOK>>) }

-----------------------------------------------------------------------------
(* The database as the statements of one call see it.  err is the          *)
(* exception that ended the call ("none" while it runs); lids and fail     *)
(* record what the call did and are not read by the code.                  *)

DB == [loci |-> loci, subloci |-> subloci, loci_attrs |-> loci_attrs,
       subloci_attrs |-> subloci_attrs, positions |-> positions,
       sqlite_sequence |-> sqlite_sequence, alloc |-> alloc,
       last_insert_rowid |-> 0, err |-> "none", lids |-> <<>>,
       fail |-> [table |-> "none", path |-> <<>>, LID |-> 0, item |-> <<>>]]

Raise(db, e, table, path, LID, item) ==
    [db EXCEPT !.err = e,
               !.fail = [table |-> table, path |-> path, LID |-> LID, item |-> item]]

\* a rowid allocator that hands out the largest rowid again
AutoincrementReuse(seq) == IF seq = 0 THEN 1 ELSE seq

\* INTEGER PRIMARY KEY AUTOINCREMENT: one more than the largest rowid ever used
Autoincrement(seq) == seq + 1


\* INSERT INTO loci (...) VALUES (core)
InsertLoci(db, core) ==
    IF db.err # "none" THEN db
    ELSE IF core.chromosome = Null
    THEN Raise(db, "ConstraintError", "loci", <<>>, 0, <<>>)
    ELSE LET LID == Autoincrement(db.sqlite_sequence.loci)
         IN [db EXCEPT
                !.loci = @ \cup {[LID |-> LID,
                                  chromosome |-> TextAffinity(core.chromosome),
                                  start |-> core.start, end |-> core.end,
                                  source |-> TextAffinity(core.source),
                                  feature_type |-> TextAffinity(core.feature_type),
                                  strand |-> TextAffinity(core.strand),
                                  frame |-> core.frame,
                                  name |-> TextAffinity(core.name)]},
                !.sqlite_sequence.loci = LID,
                !.alloc.loci = Append(@, LID),
                !.last_insert_rowid = LID]

\* INSERT INTO subloci (root_LID,parent_LID,...) VALUES ((root_LID,parent_LID)+core)
InsertSubloci(db, root_LID, parent_LID, core, path) ==
    IF db.err # "none" THEN db
    ELSE IF core.chromosome = Null
    THEN Raise(db, "ConstraintError", "subloci", path, 0, <<>>)
    ELSE LET LID == Autoincrement(db.sqlite_sequence.subloci)
         IN [db EXCEPT
                !.subloci = @ \cup {[LID |-> LID,
                                     root_LID |-> root_LID,
                                     parent_LID |-> parent_LID,
                                     chromosome |-> TextAffinity(core.chromosome),
                                     start |-> core.start, end |-> core.end,
                                     source |-> TextAffinity(core.source),
                                     feature_type |-> TextAffinity(core.feature_type),
                                     strand |-> TextAffinity(core.strand),
                                     frame |-> core.frame,
                                     name |-> TextAffinity(core.name)]},
                !.sqlite_sequence.subloci = LID,
                !.alloc.subloci = Append(@, LID),
                !.last_insert_rowid = LID,
                !.lids = @ @@ (path :> LID)]

\* the rows of an attrs table that already hold (LID,key): UNIQUE(LID,key)
Conflicts(table, LID, key) ==
    {r \in table : r.LID = LID /\ r.key = TextAffinity(key)}

\* INSERT INTO loci_attrs (LID,key,val) VALUES (LID,key,val)
InsertLociAttrs(db, LID, item) ==
    IF db.err # "none" THEN db
    ELSE IF Conflicts(db.loci_attrs, LID, item[1]) # {}
    THEN Raise(db, "ConstraintError", "loci_attrs", <<>>, LID, item)
    ELSE [db EXCEPT
             !.loci_attrs = @ \cup {[LID |-> LID, key |-> TextAffinity(item[1]),
                                     val |-> TextAffinity(item[2])]},
             !.last_insert_rowid = Cardinality(db.loci_attrs) + 1]

\* INSERT OR REPLACE INTO subloci_attrs: a repeated key takes the new value
InsertSublociAttrsReplace(db, LID, item, path) ==
    IF db.err # "none" THEN db
    ELSE [db EXCEPT
             !.subloci_attrs = (@ \ Conflicts(@, LID, item[1]))
                                  \cup {[LID |-> LID, key |-> TextAffinity(item[1]),
                                         val |-> TextAffinity(item[2])]},
             !.last_insert_rowid = Cardinality(db.subloci_attrs) + 1]

\* INSERT INTO subloci_attrs (LID,key,val) VALUES (new_parent_LID,key,val)
InsertSublociAttrs(db, LID, item, path) ==
    IF db.err # "none" THEN db
    ELSE IF Conflicts(db.subloci_attrs, LID, item[1]) # {}
    THEN Raise(db, "ConstraintError", "subloci_attrs", path, LID, item)
    ELSE [db EXCEPT
             !.subloci_attrs = @ \cup {[LID |-> LID, key |-> TextAffinity(item[1]),
                                        val |-> TextAffinity(item[2])]},
             !.last_insert_rowid = Cardinality(db.subloci_attrs) + 1]

\* INSERT INTO positions (LID,start,end,chromosome) VALUES (...)
InsertPositions(db, LID, start, end, chromosome) ==
    IF db.err # "none" THEN db
    ELSE IF \E p \in db.positions : p.LID = LID
    THEN Raise(db, "ConstraintError", "positions", <<>>, LID, <<>>)
    ELSE IF Int32(start) > Int32(end)
    THEN Raise(db, "ConstraintError", "positions", <<>>, LID, <<>>)
    ELSE [db EXCEPT
             !.positions = @ \cup {[LID |-> LID, start |-> Int32(start),
                                    end |-> Int32(end), chromosome |-> chromosome]},
             !.last_insert_rowid = LID]

\* for key,val in attrs.items(): INSERT INTO loci_attrs ...
RECURSIVE AddLociAttrs(_, _, _, _)
AddLociAttrs(db, LID, attrs, i) ==
    IF i > Len(attrs) THEN db
    ELSE AddLociAttrs(InsertLociAttrs(db, LID, attrs[i]), LID, attrs, i + 1)

\* for key,val in l.attrs.items(): INSERT INTO subloci_attrs ...
RECURSIVE AddSublociAttrs(_, _, _, _, _)
AddSublociAttrs(db, LID, attrs, path, i) ==
    IF i > Len(attrs) THEN db
    ELSE AddSublociAttrs(InsertSublociAttrs(db, LID, attrs[i], path),
                         LID, attrs, path, i + 1)

\* a recursion that keeps the parent_LID it was called with
RecurseParentStale(parent_LID, new_parent_LID) == parent_LID

\* "recurse with updated parentLID": the parent_LID handed to the recursive call
RecurseParent(parent_LID, new_parent_LID) == new_parent_LID

\* a loop that takes the sub-loci last to first
IterationOrderReversed(subs) == [i \in 1..Len(subs) |-> Len(subs) - i + 1]

\* "for l in subloci": the position in subloci of the i-th element the loop takes
IterationOrder(subs) == [i \in 1..Len(subs) |-> i]

\* Loci._add_subloci, from the i-th element of subloci on; path is the
\* position of the parent in the tree handed to add_locus
RECURSIVE _add_subloci(_, _, _, _, _, _)
_add_subloci(db, root_LID, parent_LID, subs, path, i) ==
    IF db.err # "none" \/ i > Len(subs) THEN db
    ELSE LET l == subs[IterationOrder(subs)[i]]
             here == Append(path, IterationOrder(subs)[i])
             rec == as_record(l)
             db1 == InsertSubloci(db, root_LID, parent_LID, rec.core, here)
             new_parent_LID == db1.last_insert_rowid
             db2 == AddSublociAttrs(db1, new_parent_LID, l.attrs, here, 1)
             db3 == _add_subloci(db2, root_LID,
                                 RecurseParent(parent_LID, new_parent_LID),
                                 l.subloci, here, 1)
         IN _add_subloci(db3, root_LID, parent_LID, subs, path, i + 1)

\* Loci.add_locus: the database the call leaves behind and the LID it read
add_locus(db, locus) ==
    LET rec == as_record(locus)
        db1 == InsertLoci(db, rec.core)
        LID == db1.last_insert_rowid
        db2 == AddLociAttrs(db1, LID, rec.attrs, 1)
        db3 == _add_subloci(db2, LID, LID, locus.subloci, <<>>, 1)
        db4 == InsertPositions(db3, LID, locus.start, locus.end, locus.chromosome)
    IN [db |-> db4, LID |-> LID]

-----------------------------------------------------------------------------
(* LocusView(LID, self): the record a view reads back from the tables      *)

\* the rows of a set in ascending LID order
RECURSIVE SortByLID(_)
SortByLID(rows) ==
    IF rows = {} THEN <<>>
    ELSE LET first == CHOOSE r \in rows : \A q \in rows : r.LID <= q.LID
         IN <<first>> \o SortByLID(rows \ {first})

\* the attrs of a record, as a mapping: the set of its (key,val) pairs
AttrsView(table, LID) == {<<r.key, r.val>> : r \in {x \in table : x.LID = LID}}

\* the children recorded for a parent inside one tree, in LID order.  A row
\* whose parent_LID is its root_LID is read as a child of the primary locus;
\* a sub-locus is stored before its children, so below a sub-locus (after is
\* its LID, 0 for the primary locus) only rows with a larger LID are read
RECURSIVE SubLociView(_, _, _, _, _)
SubLociView(rows, attrs, root_LID, parent_LID, after) ==
    LET kids == SortByLID({r \in rows : /\ r.root_LID = root_LID
                                        /\ r.parent_LID = parent_LID
                                        /\ r.LID > after
                                        /\ (after = 0 \/ parent_LID # root_LID)})
    IN [i \in 1..Len(kids) |->
          [chromosome |-> kids[i].chromosome, start |-> kids[i].start,
           end |-> kids[i].end, source |-> kids[i].source,
           feature_type |-> kids[i].feature_type, strand |-> kids[i].strand,
           frame |-> kids[i].frame, name |-> kids[i].name,
           attrs |-> AttrsView(attrs, kids[i].LID),
           subloci |-> SubLociView(rows, attrs, root_LID, kids[i].LID, kids[i].LID)]]

LocusView(LID) ==
    LET row == CHOOSE r \in loci : r.LID = LID
    IN [chromosome |-> row.chromosome, start |-> row.start, end |-> row.end,
        source |-> row.source, feature_type |-> row.feature_type,
        strand |-> row.strand, frame |-> row.frame, name |-> row.name,
        attrs |-> AttrsView(loci_attrs, LID),
        subloci |-> SubLociView(subloci, subloci_attrs, LID, LID, 0)]

-----------------------------------------------------------------------------
NoRet == [op |-> "none", err |-> "none", LID |-> 0, name |-> "", view |-> <<>>,
          flags |-> <<>>, lookups |-> 0, arg |-> <<>>, result |-> <<>>]

Init ==
    /\ loci = {}
    /\ subloci = {}
    /\ loci_attrs = {}
    /\ subloci_attrs = {}
    /\ positions = {}
    /\ sqlite_sequence = [loci |-> 0, subloci |-> 0]
    /\ calls = 0
    /\ alloc = [loci |-> <<>>, subloci |-> <<>>]
    /\ inserted = <<>>
    /\ ret = NoRet

\* one call of add_locus(locus) with cur=None
AddLocus ==
    /\ calls < MaxCalls
    /\ \E locus \in LocusInputs :
         LET r == add_locus(DB, locus)
         IN /\ loci' = r.db.loci
            /\ subloci' = r.db.subloci
            /\ loci_attrs' = r.db.loci_attrs
            /\ subloci_attrs' = r.db.subloci_attrs
            /\ positions' = r.db.positions
            /\ sqlite_sequence' = r.db.sqlite_sequence
            /\ alloc' = r.db.alloc
            /\ inserted' = Append(inserted,
                                  [locus |-> locus, LID |-> r.LID, err |-> r.db.err,
                                   lids |-> r.db.lids, fail |-> r.db.fail])
    /\ calls' = calls + 1
    /\ ret' = NoRet

\* the LIDs asked for: every LID add_locus can hand out, and 0 and one more
LIDInputs == 0..(MaxCalls + 1)

\* SELECT COUNT(*) FROM loci WHERE LID = ?
CountLoci(LID) == Cardinality({r \in loci : r.LID = LID})

\* Loci._get_locus_by_LID(LID)
_get_locus_by_LID ==
    /\ \E LID \in LIDInputs :
         LET lid_exists == CountLoci(LID)
         IN IF lid_exists = 0
            THEN ret' = [NoRet EXCEPT !.op = "_get_locus_by_LID", !.LID = LID,
                                      !.err = "MissingLocusError"]
            ELSE ret' = [NoRet EXCEPT !.op = "_get_locus_by_LID", !.LID = LID,
                                      !.view = LocusView(LID)]
    /\ UNCHANGED <<loci, subloci, loci_attrs, subloci_attrs, positions,
                   sqlite_sequence, calls, alloc, inserted>>

\* the arguments of _get_LID: names, and a Locus object
NameInputs == {"gene_a", "gene_b", "gene_x"}

GetLIDInputs ==
    {[isstr |-> TRUE, name |-> n] : n \in NameInputs}
        \cup {[isstr |-> FALSE, name |-> ""]}

\* the same query run on subloci
SelectLIDByNameSubloci(name) == {r.LID : r \in {x \in subloci : x.name = PyStr(name)}}

\* SELECT LID FROM loci WHERE name = ?
SelectLIDByName(name) == {r.LID : r \in {x \in loci : x.name = PyStr(name)}}

\* a lookup that takes the next LID of loci when the name is unknown
_get_LID_taking_LID ==
    /\ \E locus \in GetLIDInputs :
         LET result == IF locus.isstr THEN SelectLIDByName(locus.name) ELSE {}
         IN IF result = {}
            THEN /\ ret' = [NoRet EXCEPT !.op = "_get_LID", !.name = locus.name,
                                         !.flags = <<locus.isstr>>,
                                         !.err = "MissingLocusError"]
                 /\ sqlite_sequence' = [sqlite_sequence EXCEPT !.loci = calls + 1]
            ELSE /\ \E LID \in result :
                      ret' = [NoRet EXCEPT !.op = "_get_LID", !.name = locus.name,
                                           !.flags = <<locus.isstr>>,
                                           !.LID = LID]
                 /\ UNCHANGED sqlite_sequence
    /\ UNCHANGED <<loci, subloci, loci_attrs, subloci_attrs, positions,
                   calls, alloc, inserted>>

\* Loci._get_LID(locus); fetchone() hands back one row of the result
_get_LID ==
    /\ \E locus \in GetLIDInputs :
         IF locus.isstr
         THEN LET result == SelectLIDByName(locus.name)
              IN IF result = {}
                 THEN ret' = [NoRet EXCEPT !.op = "_get_LID", !.name = locus.name,
                                           !.flags = <<locus.isstr>>,
                                           !.err = "MissingLocusError"]
                 ELSE \E LID \in result :
                        ret' = [NoRet EXCEPT !.op = "_get_LID", !.name = locus.name,
                                             !.flags = <<locus.isstr>>,
                                             !.LID = LID]
         ELSE ret' = [NoRet EXCEPT !.op = "_get_LID", !.flags = <<locus.isstr>>,
                                   !.err = "MissingLocusError"]
    /\ UNCHANGED <<loci, subloci, loci_attrs, subloci_attrs, positions,
                   sqlite_sequence, calls, alloc, inserted>>

\* the loci handed to within
WithinInputs ==
    { Locus("1", Coord(0, 140), Coord(0, 220), "+", Null, <<>>, <<>>),
      Locus("1", Coord(0, 140), Coord(0, 220), ".", Null, <<>>, <<>>) }

\* what a generator of loci comes to when it is run to its end: the error it
\* stops with, the LIDs of the loci it yielded before that, in order, and the
\* number of _get_locus_by_LID calls it made
Generated(err, LIDs, lookups) == [err |-> err, loci |-> LIDs, lookups |-> lookups]

\* the body of Loci.within(locus, partial, ignore_strand, same_strand): it
\* starts with raise NotImplementedError, and no statement after it runs
within_body(locus, partial, ignore_strand, same_strand) ==
    Generated("NotImplementedError", <<>>, 0)

\* Loci.within(locus, ...) on one Locus, the generator it returns run to its end
within ==
    /\ \E locus \in WithinInputs, partial \in BOOLEAN,
          ignore_strand \in BOOLEAN, same_strand \in BOOLEAN :
         LET g == within_body(locus, partial, ignore_strand, same_strand)
         IN ret' = [NoRet EXCEPT !.op = "within",
                                 !.name = locus.strand.v,
                                 !.flags = <<partial, ignore_strand, same_strand>>,
                                 !.err = g.err,
                                 !.lookups = g.lookups,
                                 !.arg = locus,
                                 !.result = g.loci]
    /\ UNCHANGED <<loci, subloci, loci_attrs, subloci_attrs, positions,
                   sqlite_sequence, calls, alloc, inserted>>

Next ==
    \/ AddLocus
    \/ _get_locus_by_LID
    \/ _get_LID
    \/ within

Spec == Init /\ [][Next]_vars

-----------------------------------------------------------------------------
(* The range queries, on the dataset of the simpleLoci fixture             *)

gene_a == Locus("1", Coord(0, 100), Coord(0, 150), "+", PyStr("gene_a"), <<>>, <<>>)

gene_b == Locus("1", Coord(0, 160), Coord(0, 175), "+", PyStr("gene_b"), <<>>, <<>>)

gene_c == Locus("1", Coord(0, 180), Coord(0, 200), "-", PyStr("gene_c"), <<>>, <<>>)

gene_d == Locus("1", Coord(0, 210), Coord(0, 300), "+", PyStr("gene_d"), <<>>, <<>>)

gene_e == Locus("2", Coord(0, 100), Coord(0, 150), "+", PyStr("gene_e"), <<>>, <<>>)

\* the loci of the fixture, in the order they are added
simpleLoci == <<gene_a, gene_b, gene_c, gene_d, gene_e>>

\* the fixture's next locus goes through add_locus
AddSimpleLocus ==
    /\ calls < Len(simpleLoci)
    /\ LET r == add_locus(DB, simpleLoci[calls + 1])
       IN /\ loci' = r.db.loci
          /\ subloci' = r.db.subloci
          /\ loci_attrs' = r.db.loci_attrs
          /\ subloci_attrs' = r.db.subloci_attrs
          /\ positions' = r.db.positions
          /\ sqlite_sequence' = r.db.sqlite_sequence
          /\ alloc' = r.db.alloc
          /\ inserted' = Append(inserted,
                                [locus |-> simpleLoci[calls + 1], LID |-> r.LID,
                                 err |-> r.db.err, lids |-> r.db.lids,
                                 fail |-> r.db.fail])
    /\ calls' = calls + 1
    /\ ret' = NoRet

\* a cap n or max_distance: a number, or the default that caps nothing
Cap(v) == [finite |-> TRUE, v |-> v]

NoCap == [finite |-> FALSE, v |-> 0]

NInputs == {Cap(1), Cap(2), NoCap}

DistanceInputs == {Cap(50), NoCap}

\* the loci handed to upstream_loci, downstream_loci and flanking_loci
FlankInputs == {gene_d, gene_c}

\* the loci handed to encompassing_loci: one inside gene_d, one inside nothing
EncompassingInputs ==
    { Locus("1", Coord(0, 220), Coord(0, 250), "+", Null, <<>>, <<>>),
      Locus("2", Coord(0, 90), Coord(0, 160), "+", Null, <<>>, <<>>) }

\* the body of Loci.upstream_loci: raise NotImplementedError comes first
upstream_body(locus, n, max_distance, partial, same_strand) ==
    Generated("NotImplementedError", <<>>, 0)

\* the body of Loci.downstream_loci: raise NotImplementedError comes first
downstream_body(locus, n, max_distance, partial, same_strand) ==
    Generated("NotImplementedError", <<>>, 0)

\* the body of Loci.encompassing_loci: raise NotImplementedError comes first
encompassing_body(locus) == Generated("NotImplementedError", <<>>, 0)

\* Loci.flanking_loci is no generator: the call itself raises
flanking_call(locus, n, max_distance, partial, same_strand) ==
    Generated("NotImplementedError", <<>>, 0)

\* Loci.upstream_loci(locus, ...) on one Locus, its generator run to its end
upstream_loci ==
    /\ \E locus \in FlankInputs, n \in NInputs, max_distance \in DistanceInputs,
          partial \in BOOLEAN, same_strand \in BOOLEAN :
         LET g == upstream_body(locus, n, max_distance, partial, same_strand)
         IN ret' = [NoRet EXCEPT !.op = "upstream_loci",
                                 !.flags = <<n, max_distance, partial, same_strand>>,
                                 !.err = g.err, !.lookups = g.lookups,
                                 !.arg = locus, !.result = g.loci]
    /\ UNCHANGED <<loci, subloci, loci_attrs, subloci_attrs, positions,
                   sqlite_sequence, calls, alloc, inserted>>

\* Loci.downstream_loci(locus, ...) on one Locus, its generator run to its end
downstream_loci ==
    /\ \E locus \in FlankInputs, n \in NInputs, max_distance \in DistanceInputs,
          partial \in BOOLEAN, same_strand \in BOOLEAN :
         LET g == downstream_body(locus, n, max_distance, partial, same_strand)
         IN ret' = [NoRet EXCEPT !.op = "downstream_loci",
                                 !.flags = <<n, max_distance, partial, same_strand>>,
                                 !.err = g.err, !.lookups = g.lookups,
                                 !.arg = locus, !.result = g.loci]
    /\ UNCHANGED <<loci, subloci, loci_attrs, subloci_attrs, positions,
                   sqlite_sequence, calls, alloc, inserted>>

\* Loci.flanking_loci(locus, ...) on one Locus
flanking_loci ==
    /\ \E locus \in FlankInputs, n \in NInputs, max_distance \in DistanceInputs,
          partial \in BOOLEAN, same_strand \in BOOLEAN :
         LET g == flanking_call(locus, n, max_distance, partial, same_strand)
         IN ret' = [NoRet EXCEPT !.op = "flanking_loci",
                                 !.flags = <<n, max_distance, partial, same_strand>>,
                                 !.err = g.err, !.lookups = g.lookups,
                                 !.arg = locus, !.result = g.loci]
    /\ UNCHANGED <<loci, subloci, loci_attrs, subloci_attrs, positions,
                   sqlite_sequence, calls, alloc, inserted>>

\* Loci.encompassing_loci(locus) on one Locus, its generator run to its end
encompassing_loci ==
    /\ \E locus \in EncompassingInputs :
         LET g == encompassing_body(locus)
         IN ret' = [NoRet EXCEPT !.op = "encompassing_loci",
                                 !.err = g.err, !.lookups = g.lookups,
                                 !.arg = locus, !.result = g.loci]
    /\ UNCHANGED <<loci, subloci, loci_attrs, subloci_attrs, positions,
                   sqlite_sequence, calls, alloc, inserted>>
\* Loci.__iter__(): the generator expression evaluates self._primary_LIDS()
\* when it is built, and Loci defines no _primary_LIDS
__iter__ ==
    /\ ret' = [NoRet EXCEPT !.op = "__iter__", !.err = "AttributeError"]
    /\ UNCHANGED <<loci, subloci, loci_attrs, subloci_attrs, positions,
                   sqlite_sequence, calls, alloc, inserted>>

\* the methods whose call hands back a generator
GeneratorFunctions == {"within", "upstream_loci", "downstream_loci", "encompassing_loci"}

\* a generator method is called and its generator dropped before its first
\* next(): no statement of the body runs
abandon ==
    /\ \E fn \in GeneratorFunctions :
         ret' = [NoRet EXCEPT !.op = "abandon", !.name = fn]
    /\ UNCHANGED <<loci, subloci, loci_attrs, subloci_attrs, positions,
                   sqlite_sequence, calls, alloc, inserted>>

\* the sequences of loci handed to a method in place of one Locus
SequenceInputs == { <<gene_b, gene_d>>, <<gene_d, gene_b>>, <<gene_c>> }

within_default(l) == within_body(l, FALSE, FALSE, FALSE)

upstream_default(l) == upstream_body(l, NoCap, NoCap, FALSE, FALSE)

downstream_default(l) == downstream_body(l, NoCap, NoCap, FALSE, FALSE)

\* the decorated method fn(self, l) with the other arguments at their defaults
decorated(fn, l) ==
    CASE fn = "within" -> within_default(l)
      [] fn = "upstream_loci" -> upstream_default(l)
      [] fn = "downstream_loci" -> downstream_default(l)

\* wrapped(self, loci, ...) of accepts_loci when loci is no Locus:
\* [fn(self, l, ...) for l in loci]
accepts_loci(fn, list) == [i \in 1..Len(list) |-> decorated(fn, list[i])]

\* the methods called with a sequence
SequenceFunctions ==
    {"add_locus", "within", "upstream_loci", "downstream_loci",
     "flanking_loci", "encompassing_loci"}

\* a method called with a list of loci and the other arguments left at their
\* defaults.  within, upstream_loci and downstream_loci carry @accepts_loci:
\* the call hands back one generator per element, each kept here as what it
\* comes to when run.  add_locus, flanking_loci and encompassing_loci carry no
\* decorator and run their body on the list: add_locus stops at
\* locus.as_record() on a list, the other two at raise NotImplementedError
sequence_call ==
    /\ \E fn \in SequenceFunctions, list \in SequenceInputs :
         LET out ==
               CASE fn \in {"within", "upstream_loci", "downstream_loci"} ->
                      [err |-> "none", results |-> accepts_loci(fn, list)]
                 [] fn = "add_locus" ->
                      [err |-> "AttributeError", results |-> <<>>]
                 [] fn = "flanking_loci" ->
                      [err |-> flanking_call(list, NoCap, NoCap, FALSE, FALSE).err,
                       results |-> <<>>]
                 [] fn = "encompassing_loci" ->
                      [err |-> encompassing_body(list).err, results |-> <<>>]
         IN ret' = [NoRet EXCEPT !.op = "sequence_call", !.name = fn,
                                 !.err = out.err, !.arg = list,
                                 !.result = out.results]
    /\ UNCHANGED <<loci, subloci, loci_attrs, subloci_attrs, positions,
                   sqlite_sequence, calls, alloc, inserted>>

NextQueries ==
    \/ AddSimpleLocus
    \/ _get_locus_by_LID
    \/ _get_LID
    \/ __iter__
    \/ within
    \/ upstream_loci
    \/ downstream_loci
    \/ flanking_loci
    \/ encompassing_loci
    \/ abandon
    \/ sequence_call

SpecQueries == Init /\ [][NextQueries]_vars

-----------------------------------------------------------------------------
(* Helpers of the properties                                               *)

\* the positions of the sub-loci of a tree: the child indices from the root down
RECURSIVE PathsOf(_, _)
PathsOf(subs, prefix) ==
    UNION { {Append(prefix, i)} \cup PathsOf(subs[i].subloci, Append(prefix, i)) :
            i \in 1..Len(subs) }

RECURSIVE NodeAt(_, _)
NodeAt(l, path) ==
    IF path = <<>> THEN l ELSE NodeAt(l.subloci[Head(path)], Tail(path))

Front(path) == SubSeq(path, 1, Len(path) - 1)

\* two items of one attrs mapping that are one key once stored
Clashes(attrs) ==
    \E i, j \in 1..Len(attrs) :
        i < j /\ TextAffinity(attrs[i][1]) = TextAffinity(attrs[j][1])

\* the values stored in subloci_attrs for (LID, key)
StoredVals(LID, key) ==
    {r.val : r \in {x \in subloci_attrs : x.LID = LID /\ x.key = TextAffinity(key)}}

\* the value of the first item of attrs stored under key
FirstVal(attrs, key) ==
    LET i == CHOOSE n \in 1..Len(attrs) :
                 /\ TextAffinity(attrs[n][1]) = TextAffinity(key)
                 /\ \A m \in 1..(n - 1) :
                        TextAffinity(attrs[m][1]) # TextAffinity(key)
    IN attrs[i][2]

\* a locus as get is expected to give it back: attrs as a mapping
RECURSIVE Canon(_)
Canon(l) ==
    [chromosome |-> l.chromosome, start |-> l.start, end |-> l.end,
     source |-> l.source, feature_type |-> l.feature_type, strand |-> l.strand,
     frame |-> l.frame, name |-> l.name,
     attrs |-> {<<l.attrs[i][1], l.attrs[i][2]>> : i \in 1..Len(l.attrs)},
     subloci |-> [i \in 1..Len(l.subloci) |-> Canon(l.subloci[i])]]

\* the LIDs add_locus has returned
Returned == {inserted[k].LID : k \in {n \in 1..Len(inserted) : inserted[n].err = "none"}}

-----------------------------------------------------------------------------
(* C1 *)

HasLociRow(e) == \E r \in loci : r.LID = e.LID

HasAllAttrs(e) ==
    \A i \in 1..Len(e.locus.attrs) :
        \E r \in loci_attrs :
            r.LID = e.LID /\ r.key = TextAffinity(e.locus.attrs[i][1])

HasAllSubloci(e) ==
    \A p \in PathsOf(e.locus.subloci, <<>>) :
        /\ p \in DOMAIN e.lids
        /\ \E r \in subloci : r.LID = e.lids[p] /\ r.root_LID = e.LID

HasPosition(e) == \E p \in positions : p.LID = e.LID

NothingVisible(e) ==
    /\ ~ HasLociRow(e)
    /\ ~ \E r \in loci_attrs : r.LID = e.LID
    /\ ~ \E r \in subloci : r.root_LID = e.LID
    /\ ~ HasPosition(e)

\* C1: for the locus of every add_locus call made so far, succeeded or failed,
\* either its loci row, all its attribute rows, all its descendant sub-locus
\* rows and its positions row are present, or nothing of it is
AddLocusAtomic ==
    \A k \in 1..Len(inserted) :
        \/ /\ HasLociRow(inserted[k])
           /\ HasAllAttrs(inserted[k])
           /\ HasAllSubloci(inserted[k])
           /\ HasPosition(inserted[k])
        \/ NothingVisible(inserted[k])

-----------------------------------------------------------------------------
(* C2 *)

\* a signed 32 bit value of positions against a coordinate of loci
SameCoord(i32, c) == c.hi = 0 /\ c.lo = i32

\* C2: every positions row belongs to exactly one loci row, which has the same
\* chromosome, start and end, and no LID has two positions rows
PositionsMatchLoci ==
    /\ \A p \in positions :
          /\ Cardinality({r \in loci : r.LID = p.LID}) = 1
          /\ \A r \in loci :
                r.LID = p.LID =>
                    /\ r.chromosome = p.chromosome
                    /\ SameCoord(p.start, r.start)
                    /\ SameCoord(p.end, r.end)
    /\ \A p, q \in positions : p.LID = q.LID => p = q

-----------------------------------------------------------------------------
(* C3 *)

StrictlyIncreasing(log) ==
    \A i \in 1..Len(log) :
        /\ log[i] > 0
        /\ \A j \in 1..(i - 1) : log[j] < log[i]

\* C3: in each scope the LIDs handed out are positive and each is larger than
\* all handed out before it (so none is handed out twice); every add_locus
\* call takes exactly one LID of the primary scope however many sub-loci it
\* writes, and every sub-locus row takes one LID of the sub-locus scope
LIDsMonotonicPerScope ==
    /\ StrictlyIncreasing(alloc.loci)
    /\ StrictlyIncreasing(alloc.subloci)
    /\ Len(alloc.loci) = calls
    /\ sqlite_sequence.loci = calls
    /\ {alloc.loci[i] : i \in 1..Len(alloc.loci)} = {r.LID : r \in loci}
    /\ Cardinality(loci) = calls
    /\ {alloc.subloci[i] : i \in 1..Len(alloc.subloci)} = {r.LID : r \in subloci}
    /\ Cardinality(subloci) = Len(alloc.subloci)

\* two inserts with sub-loci have been made: the scopes have handed out
\* different numbers of LIDs, and LID 1 and 2 exist in both
LIDsMonotonicWitness ==
    /\ Len(alloc.loci) = 2
    /\ Len(alloc.subloci) >= 4
    /\ alloc.loci[2] = 2
    /\ \E r \in subloci : r.LID = 2 /\ r.root_LID = 1

-----------------------------------------------------------------------------
(* C4 *)

\* C4: after add_locus(L) returned r, every sub-locus of L at any depth has a
\* row of its own in subloci with root_LID = r; the parent_LID of a child of L
\* is r and that of a deeper sub-locus is the LID of its parent's row
SublociLinked ==
    \A k \in 1..Len(inserted) :
        inserted[k].err = "none" =>
            LET e == inserted[k]
                paths == PathsOf(e.locus.subloci, <<>>)
            IN /\ paths = DOMAIN e.lids
               /\ \A p, q \in paths : e.lids[p] = e.lids[q] => p = q
               /\ \A p \in paths :
                     /\ Cardinality({r \in subloci : r.LID = e.lids[p]}) = 1
                     /\ \A r \in subloci :
                           r.LID = e.lids[p] =>
                               /\ r.root_LID = e.LID
                               /\ r.parent_LID = IF Len(p) = 1 THEN e.LID
                                                 ELSE e.lids[Front(p)]
                               /\ r.name = NodeAt(e.locus, p).name

\* a second insert returned, of a tree with a sub-locus below a sub-locus whose
\* LID differs from the root's
SublociLinkedWitness ==
    /\ Len(inserted) = 2
    /\ inserted[2].err = "none"
    /\ \E p \in DOMAIN inserted[2].lids :
          /\ Len(p) = 2
          /\ inserted[2].lids[Front(p)] # inserted[2].LID
          /\ \E r \in subloci : /\ r.LID = inserted[2].lids[p]
                                /\ r.parent_LID = inserted[2].lids[Front(p)]

-----------------------------------------------------------------------------
(* C5 *)

\* the records a stored (root_LID, parent_LID) pair can name as the parent
ParentRecords(x) ==
    {[scope |-> "loci", LID |-> r.LID] :
        r \in {y \in loci : y.LID = x.parent_LID /\ y.LID = x.root_LID}}
    \cup
    {[scope |-> "subloci", LID |-> r.LID] :
        r \in {y \in subloci : /\ y.LID = x.parent_LID
                               /\ y.root_LID = x.root_LID
                               /\ y.LID # x.LID}}

\* the parent of a sub-locus row in the tree that was inserted
TrueParent(x) ==
    LET k == CHOOSE n \in 1..Len(inserted) : inserted[n].LID = x.root_LID
        e == inserted[k]
        p == CHOOSE q \in DOMAIN e.lids : e.lids[q] = x.LID
    IN IF Len(p) = 1 THEN [scope |-> "loci", LID |-> e.LID]
       ELSE [scope |-> "subloci", LID |-> e.lids[Front(p)]]

\* C5: the stored (root_LID, parent_LID) of every sub-locus row names exactly
\* one parent record, the parent it had in the inserted tree, so that the
\* parent chain runs through its ancestors to the primary locus root_LID
ParentUnambiguous ==
    \A x \in subloci : ParentRecords(x) = {TrueParent(x)}

-----------------------------------------------------------------------------
(* C6 *)

\* C6: a get of the LID the latest add_locus returned gives back the locus
\* that was inserted: core fields, attribute mapping, sub-locus tree and order
RoundTrip ==
    (/\ ret.op = "_get_locus_by_LID"
     /\ ret.err = "none"
     /\ calls > 0
     /\ inserted[calls].err = "none"
     /\ inserted[calls].LID = ret.LID)
        => ret.view = Canon(inserted[calls].locus)

-----------------------------------------------------------------------------
(* C7 *)

\* C7: an add_locus call that reaches a sub-locus whose attrs repeat a stored
\* key fails there with a constraint violation; the value stored first for
\* that (LID, key) stays, and the root row and the sub-locus rows written
\* before the failing insert stay in the tables
SubAttrConflictFails ==
    \A k \in 1..Len(inserted) :
        LET e == inserted[k]
        IN /\ \A p \in DOMAIN e.lids :
                 Clashes(NodeAt(e.locus, p).attrs) =>
                     /\ e.fail.table = "subloci_attrs"
                     /\ e.fail.path = p
           /\ e.fail.table = "subloci_attrs" =>
                 /\ e.err = "ConstraintError"
                 /\ e.fail.LID = e.lids[e.fail.path]
                 /\ StoredVals(e.fail.LID, e.fail.item[1])
                       = {TextAffinity(FirstVal(NodeAt(e.locus, e.fail.path).attrs,
                                                e.fail.item[1]))}
                 /\ HasLociRow(e)
                 /\ \A p \in DOMAIN e.lids :
                       \E r \in subloci : r.LID = e.lids[p] /\ r.root_LID = e.LID

\* an insert failed on the attrs of its second sub-locus: the first sub-locus
\* and the root are in the tables, the value first stored is there, the
\* value of the failing insert is not
SubAttrConflictWitness ==
    \E k \in 1..Len(inserted) :
        /\ inserted[k].fail.table = "subloci_attrs"
        /\ inserted[k].err = "ConstraintError"
        /\ inserted[k].fail.path = <<2>>
        /\ \E r \in subloci : r.LID = inserted[k].lids[<<1>>]
        /\ \E r \in subloci_attrs :
              r.LID = inserted[k].fail.LID /\ r.val = PyStr("x")
        /\ ~ \E r \in subloci_attrs :
              r.LID = inserted[k].fail.LID /\ r.val = PyStr("y")

-----------------------------------------------------------------------------
(* C8 *)

\* C8: a step of _get_locus_by_LID leaves the store as it was, fails with
\* MissingLocusError exactly when loci has no row of that LID, and succeeds
\* exactly for the LIDs add_locus has returned
GetByLID ==
    [][ret'.op = "_get_locus_by_LID" =>
          /\ UNCHANGED <<loci, subloci, loci_attrs, subloci_attrs, positions,
                         sqlite_sequence>>
          /\ ret'.err \in {"none", "MissingLocusError"}
          /\ (ret'.err = "MissingLocusError") <=> (CountLoci(ret'.LID) = 0)
          /\ (ret'.err = "none") <=> (ret'.LID \in Returned)]_vars

-----------------------------------------------------------------------------
(* C9 *)

\* C9: _get_LID of a string fails with MissingLocusError exactly when no row
\* of loci has that name, and otherwise returns the LID of a row with exactly
\* that name; no insert into loci fails, whatever names are already stored
ResolveName ==
    /\ (ret.op = "_get_LID" /\ ret.flags[1]) =>
          /\ ret.err \in {"none", "MissingLocusError"}
          /\ (ret.err = "MissingLocusError")
                <=> ~ \E r \in loci : r.name = PyStr(ret.name)
          /\ ret.err = "none" =>
                \E r \in loci : r.LID = ret.LID /\ r.name = PyStr(ret.name)
    /\ \A k \in 1..Len(inserted) : inserted[k].fail.table # "loci"

\* two loci of one name have been inserted, a third name has not, and the
\* name was resolved to the second of them
ResolveNameWitness ==
    /\ ret.op = "_get_LID"
    /\ ret.err = "none"
    /\ ret.LID = 2
    /\ Cardinality({r \in loci : r.name = PyStr(ret.name)}) = 2
    /\ \A k \in 1..Len(inserted) : inserted[k].err = "none"

-----------------------------------------------------------------------------
(* C10 *)

\* C10: within called with ignore_strand and same_strand both true fails with
\* the configuration error (ValueError), before any lookup
WithinFlagsRejected ==
    (ret.op = "within" /\ ret.flags[2] /\ ret.flags[3]) =>
        /\ ret.err = "ValueError"
        /\ ret.lookups = 0

-----------------------------------------------------------------------------
(* Helpers of the range query properties                                   *)

CoordLt(a, b) == a.hi < b.hi \/ (a.hi = b.hi /\ a.lo < b.lo)

CoordLe(a, b) == a = b \/ CoordLt(a, b)

\* the row of loci with a LID
Row(LID) == CHOOSE r \in loci : r.LID = LID

Elements(seq) == {seq[i] : i \in 1..Len(seq)}

\* the names of the loci a result lists, in its order
NamesOf(LIDs) == [i \in 1..Len(LIDs) |-> Row(LIDs[i]).name.v]

\* the flags of a within call that the method accepts for the locus
WithinAccepts(r) ==
    /\ ~ (r.flags[2] /\ r.flags[3])
    /\ (r.arg.strand.v \in {"+", "-"} \/ r.flags[2])

-----------------------------------------------------------------------------
(* C11 *)

\* the stored locus x lies strictly inside the span of l
Inside(x, l) == CoordLt(l.start, x.start) /\ CoordLt(x.end, l.end)

\* the span of the stored locus x meets the closed interval of l
Overlaps(x, l) == CoordLe(l.start, x.end) /\ CoordLe(x.start, l.end)

\* C11: a within call that is accepted, without same_strand, returns exactly
\* the primary loci on the chromosome of the query locus that pass the span
\* test: strictly inside its span when partial is false, overlapping its
\* closed interval when partial is true; never a locus of another chromosome
WithinSpanTest ==
    (ret.op = "within" /\ WithinAccepts(ret) /\ ~ ret.flags[3]) =>
        Elements(ret.result) =
            {x.LID : x \in {r \in loci :
                              /\ r.chromosome = ret.arg.chromosome
                              /\ IF ret.flags[1] THEN Overlaps(r, ret.arg)
                                                 ELSE Inside(r, ret.arg)}}

-----------------------------------------------------------------------------
(* C12 *)

\* C12: on the store of gene_a .. gene_e, within of 1:140-220 on '+' with
\* partial true returns gene_b, gene_c, gene_d in that order, and with
\* same_strand also true gene_b, gene_d; with same_strand the result is the
\* result without it less the loci of the other strand, in the same order
WithinSimpleLoci ==
    /\ ( /\ calls = Len(simpleLoci)
         /\ ret.op = "within"
         /\ ret.arg = Locus("1", Coord(0, 140), Coord(0, 220), "+", Null, <<>>, <<>>)
         /\ ret.flags[1]
         /\ ~ ret.flags[2] ) =>
            NamesOf(ret.result) = IF ret.flags[3]
                                  THEN <<"gene_b", "gene_d">>
                                  ELSE <<"gene_b", "gene_c", "gene_d">>
    /\ (ret.op = "within" /\ WithinAccepts(ret) /\ ret.flags[3]) =>
            LET SameStrand(LID) == Row(LID).strand = ret.arg.strand
            IN ret.result = SelectSeq(within_body(ret.arg, ret.flags[1],
                                                  ret.flags[2], FALSE).loci,
                                      SameStrand)

-----------------------------------------------------------------------------
(* C14 *)

\* the stored locus x lies wholly below the start of l, or wholly above its end
Below(x, l) == CoordLt(x.end, l.start)

Above(x, l) == CoordLt(l.end, x.start)

\* upstream of l is below it on '+' and above it on '-'; downstream the reverse
OnSide(op, x, l) ==
    IF (op = "upstream_loci") = (l.strand.v = "+") THEN Below(x, l) ELSE Above(x, l)

\* of two loci on one side of l, a is at least as near to l as b
NearerOrSame(a, b, l) ==
    IF Below(a, l) THEN CoordLe(b.end, a.end) ELSE CoordLe(a.start, b.start)

\* C14: upstream_loci and downstream_loci without partial return only primary
\* loci on the chromosome of the query locus that lie on their side of it
\* (upstream before its 5' end, downstream after its 3' end), nearest first;
\* on the store of gene_a .. gene_e, upstream_loci(gene_d, n=1) returns gene_c
UpstreamDownstreamSides ==
    /\ (ret.op \in {"upstream_loci", "downstream_loci"} /\ ~ ret.flags[3]) =>
          /\ \A i \in 1..Len(ret.result) :
                /\ \E r \in loci : r.LID = ret.result[i]
                /\ Row(ret.result[i]).chromosome = ret.arg.chromosome
                /\ OnSide(ret.op, Row(ret.result[i]), ret.arg)
          /\ \A i, j \in 1..Len(ret.result) :
                i < j => NearerOrSame(Row(ret.result[i]), Row(ret.result[j]), ret.arg)
    /\ ( /\ calls = Len(simpleLoci)
         /\ ret.op = "upstream_loci"
         /\ ret.arg = gene_d
         /\ ret.flags = <<Cap(1), NoCap, FALSE, FALSE>> ) =>
            NamesOf(ret.result) = <<"gene_c">>

-----------------------------------------------------------------------------
(* C16 *)

\* the stored locus x starts before l and ends after it
Encompasses(x, l) == CoordLt(x.start, l.start) /\ CoordLt(l.end, x.end)

\* C16: encompassing_loci returns exactly the primary loci on the chromosome
\* of the query locus that start before it and end after it, and none of
\* them is returned by within(locus, partial=false)
EncompassingExact ==
    ret.op = "encompassing_loci" =>
        /\ Elements(ret.result) =
              {x.LID : x \in {r \in loci : /\ r.chromosome = ret.arg.chromosome
                                           /\ Encompasses(r, ret.arg)}}
        /\ Elements(ret.result)
              \cap Elements(within_body(ret.arg, FALSE, FALSE, FALSE).loci) = {}

-----------------------------------------------------------------------------
(* C17 *)

\* the error the method ends with when it is called on the one locus l
SingleErr(fn, l) ==
    CASE fn = "add_locus" -> add_locus(DB, l).db.err
      [] fn = "within" -> within_default(l).err
      [] fn = "upstream_loci" -> upstream_default(l).err
      [] fn = "downstream_loci" -> downstream_default(l).err
      [] fn = "flanking_loci" -> flanking_call(l, NoCap, NoCap, FALSE, FALSE).err
      [] fn = "encompassing_loci" -> encompassing_body(l).err

\* C17: add, within, upstream_loci, downstream_loci, flanking_loci and
\* encompassing_loci called with a sequence of k loci return k results, one
\* per element in input order, when the operation succeeds on every element,
\* and otherwise stop with the error of the first element it fails on
SequenceCallMaps ==
    ret.op = "sequence_call" =>
        LET k == Len(ret.arg)
            failing == {i \in 1..k : SingleErr(ret.name, ret.arg[i]) # "none"}
        IN IF failing = {}
           THEN ret.err = "none" /\ Len(ret.result) = k
           ELSE LET first == CHOOSE i \in failing : \A j \in failing : i <= j
                IN ret.err = SingleErr(ret.name, ret.arg[first])

-----------------------------------------------------------------------------
(* C18 *)

\* the calls that look up or query
LookupOps ==
    {"_get_locus_by_LID", "_get_LID", "__iter__", "within", "upstream_loci",
     "downstream_loci", "flanking_loci", "encompassing_loci", "abandon"}

-----------------------------------------------------------------------------
(* C19 *)

\* the stored loci a and b come in this order under the ordering of within
InOrder(a, b, strand, ignore_strand, partial) ==
    IF strand = "+" \/ ignore_strand
    THEN IF partial THEN CoordLe(a.end, b.end) ELSE CoordLe(a.start, b.start)
    ELSE IF partial THEN CoordLe(b.start, a.start) ELSE CoordLe(b.end, a.end)

\* C19: within lists its loci ascending by start (partial false) or by end
\* (partial true) for a '+' locus or with ignore_strand, and descending by end
\* (partial false) or by start (partial true) for a '-' locus; for any other
\* strand without ignore_strand it fails with StrandError
WithinOrder ==
    (ret.op = "within" /\ ~ (ret.flags[2] /\ ret.flags[3])) =>
        IF ret.arg.strand.v \in {"+", "-"} \/ ret.flags[2]
        THEN \A i, j \in 1..Len(ret.result) :
                i < j => InOrder(Row(ret.result[i]), Row(ret.result[j]),
                                 ret.arg.strand.v, ret.flags[2], ret.flags[1])
        ELSE ret.err = "StrandError"

-----------------------------------------------------------------------------
(* C21 *)

\* the position p comes before the position q in the depth-first pre-order
\* of a tree: p is an ancestor of q, or where they part p takes the earlier
\* child
PreOrderBefore(p, q) ==
    \E n \in 0..Len(p) :
        /\ n <= Len(q)
        /\ SubSeq(p, 1, n) = SubSeq(q, 1, n)
        /\ \/ n = Len(p) /\ n < Len(q)
           \/ n < Len(p) /\ n < Len(q) /\ p[n + 1] < q[n + 1]

\* C21: within one add_locus call the sub-loci get their LIDs in depth-first
\* pre-order: a sub-locus gets a smaller LID than each of its descendants, and
\* a sub-locus and its descendants get smaller LIDs than every later sibling
\* and that sibling's descendants.  The LID of the root is taken before any
\* sub-locus row is written (every sub-locus row names a stored root), and the
\* positions row of the root is written only after all its sub-loci
SubLIDsDepthFirst ==
    /\ \A k \in 1..Len(inserted) :
          LET e == inserted[k]
          IN /\ \A p, q \in DOMAIN e.lids :
                   PreOrderBefore(p, q) => e.lids[p] < e.lids[q]
             /\ DOMAIN e.lids # {} => \E r \in loci : r.LID = e.LID
             /\ (\E x \in positions : x.LID = e.LID) =>
                   DOMAIN e.lids = PathsOf(e.locus.subloci, <<>>)
             /\ e.fail.table \in {"subloci", "subloci_attrs"} =>
                   /\ \E r \in loci : r.LID = e.LID
                   /\ ~ \E x \in positions : x.LID = e.LID
    /\ \A r \in subloci : \E l \in loci : l.LID = r.root_LID

\* two inserts of a tree with a sub-locus, its child and a later sibling have
\* returned: in the second the three got consecutive LIDs in that order,
\* after those of the first, and the root has its positions row
SubLIDsDepthFirstWitness ==
    /\ Len(inserted) = 2
    /\ inserted[1].err = "none"
    /\ inserted[2].err = "none"
    /\ DOMAIN inserted[2].lids = {<<1>>, <<1, 1>>, <<2>>}
    /\ inserted[2].lids[<<1>>] = 4
    /\ inserted[2].lids[<<1, 1>>] = 5
    /\ inserted[2].lids[<<2>>] = 6
    /\ \E x \in positions : x.LID = inserted[2].LID

=============================================================================
